---- MODULE Spec2Model ----
(***************************************************************************)
(* A model of robust_linker.py: the class-link scraper and notifier.       *)
(* One run of main() is a sequential process; every network request is one *)
(* step.  Text is kept as strings and the text predicates of the scraper   *)
(* (lower-casing, substring tests, stripping) are computed on them.        *)
(***************************************************************************)
EXTENDS Integers, Sequences, FiniteSets, TLC

(***************************************************************************)
(* Bounds of the model.                                                    *)
(***************************************************************************)
\* Longest comma-separated list in ZOOM_WEBHOOK_URLS / ZOOM_VERIFICATION_TOKENS.
MaxWebhooks == 2
\* Longest sequence of top-level nodes (cards, loose anchors) in a page.
MaxCards == 2

\* Python's None.
None == "None"

(***************************************************************************)
(* Text helpers: str.lower, the `in` operator on strings, str.strip.       *)
(***************************************************************************)
UpperChars == "ABCDEFGHIJKLMNOPQRSTUVWXYZ"
LowerChars == "abcdefghijklmnopqrstuvwxyz"

LowerChar(c) ==
    LET I == {i \in 1..Len(UpperChars) : SubSeq(UpperChars, i, i) = c}
    IN  IF I = {} THEN c ELSE LET i == CHOOSE j \in I : TRUE IN SubSeq(LowerChars, i, i)

RECURSIVE Lower(_)
Lower(s) ==
    IF s = "" THEN ""
    ELSE LowerChar(SubSeq(s, 1, 1)) \o Lower(SubSeq(s, 2, Len(s)))

\* needle in hay
Contains(needle, hay) ==
    \E i \in 1..(Len(hay) - Len(needle) + 1) :
        SubSeq(hay, i, i + Len(needle) - 1) = needle

RECURSIVE LStrip(_)
LStrip(s) ==
    IF s # "" /\ SubSeq(s, 1, 1) = " " THEN LStrip(SubSeq(s, 2, Len(s))) ELSE s

RECURSIVE RStrip(_)
RStrip(s) ==
    IF s # "" /\ SubSeq(s, Len(s), Len(s)) = " " THEN RStrip(SubSeq(s, 1, Len(s) - 1)) ELSE s

Strip(s) == RStrip(LStrip(s))

(***************************************************************************)
(* TaskType and the schedule (TaskScheduler.get_scheduled_task).           *)
(***************************************************************************)
DAILY_REPORT   == "daily_report"
SUNDAY_CLASSES == "sunday_classes"
SUNDAY_MARKS   == "sunday_marks"
WEEKDAY_CIRCLE == "weekday_circle"
WEEKDAY_NORMAL == "weekday_normal"
WEEKDAY_MARK   == "weekday_mark"

TaskType == {DAILY_REPORT, SUNDAY_CLASSES, SUNDAY_MARKS,
             WEEKDAY_CIRCLE, WEEKDAY_NORMAL, WEEKDAY_MARK}

\* datetime.weekday(): Monday = 0 .. Sunday = 6
Days    == 0..6
Hours   == 0..23
Minutes == 0..59

\* the daily report nested in the weekday branch
get_scheduled_task_nested(day, hour, minute) ==
    IF day = 6
    THEN IF hour = 17 /\ minute < 15 THEN SUNDAY_CLASSES
         ELSE IF hour = 18 /\ minute >= 55 THEN SUNDAY_MARKS
         ELSE None
    ELSE IF hour = 8 /\ minute < 15 THEN DAILY_REPORT
         ELSE IF hour = 16 /\ minute < 15 THEN WEEKDAY_CIRCLE
         ELSE IF hour = 17 /\ minute < 15 THEN WEEKDAY_NORMAL
         ELSE IF hour = 18 /\ minute >= 55 THEN WEEKDAY_NORMAL
         ELSE IF hour = 19 /\ 15 <= minute /\ minute < 30 THEN WEEKDAY_MARK
         ELSE None

get_scheduled_task(day, hour, minute) ==
    IF hour = 8 /\ minute < 15 THEN DAILY_REPORT
    ELSE IF day = 6
         THEN IF hour = 17 /\ minute < 15 THEN SUNDAY_CLASSES
              ELSE IF hour = 18 /\ minute >= 55 THEN SUNDAY_MARKS
              ELSE None
         ELSE IF hour = 16 /\ minute < 15 THEN WEEKDAY_CIRCLE
              ELSE IF hour = 17 /\ minute < 15 THEN WEEKDAY_NORMAL
              ELSE IF hour = 18 /\ minute >= 55 THEN WEEKDAY_NORMAL
              ELSE IF hour = 19 /\ 15 <= minute /\ minute < 30 THEN WEEKDAY_MARK
              ELSE None

(***************************************************************************)
(* The live-class page.  A page is a sequence of top-level nodes; a node   *)
(* is a card (div.p-4.border.rounded) with an optional h6 heading and its  *)
(* anchors, or a loose anchor outside every card.  An anchor has a text    *)
(* (None when it has no single string) and an href (None when absent).     *)
(***************************************************************************)
Anchor(text, href) == [text |-> text, href |-> href]
Card(h6, anchors)  == [tag |-> "div", h6 |-> h6, anchors |-> anchors]
Loose(anchor)      == [tag |-> "a", h6 |-> None, anchors |-> <<anchor>>]

Nodes ==
    { Card(" Study Circle ", <<Anchor("Join Meeting", "j1")>>),
      Card("STUDY CIRCLE 2", <<Anchor("Details", "d2"), Anchor("JOIN MEETING", "j2"),
                               Anchor("Mark Attendance", "m2")>>),
      Card("Maths", <<Anchor("Mark", ""), Anchor("join meeting now", "j3")>>),
      Card("Study Circl", <<Anchor("Join Meeting", None)>>),
      Card(None, <<Anchor("Join Meeting", "j5"), Anchor("MARK", "m5")>>),
      Card("Physics", <<Anchor("Details", "d6"), Anchor("Remark", None)>>),
      Card("Chemistry", <<Anchor(None, "j7")>>),
      Loose(Anchor("Mark my attendance", "m8")) }

Pages == UNION { [1..n -> Nodes] : n \in 0..MaxCards }

\* soup.select("div.p-4.border.rounded"): the cards, in document order
select_cards(doc) == SelectSeq(doc, LAMBDA node : node.tag = "div")

\* every anchor of the document, in document order
RECURSIVE anchors_from(_, _)
anchors_from(found, doc) ==
    IF doc = <<>> THEN found
    ELSE anchors_from(found \o Head(doc).anchors, Tail(doc))

all_anchors(doc) == anchors_from(<<>>, doc)

\* string=lambda t: t and needle in t.lower()
text_matches(t, needle) == t # None /\ t # "" /\ Contains(needle, Lower(t))

\* find("a", string=...): index of the first matching anchor, 0 for None
find_anchor(anchors, needle) ==
    LET I == {i \in 1..Len(anchors) : text_matches(anchors[i].text, needle)}
    IN  IF I = {} THEN 0 ELSE CHOOSE i \in I : \A j \in I : i <= j

\* tag.get("href", "")
get_href_default(a) == IF a.href = None THEN "" ELSE a.href

ClassInfo(subject, join_link, mark_link) ==
    [subject |-> subject, join_link |-> join_link, mark_link |-> mark_link]

\* one iteration of the loop of _parse_sunday_classes
sunday_card(classes, card) ==
    LET join_btn == find_anchor(card.anchors, "join meeting")
        mark_btn == find_anchor(card.anchors, "mark")
    IN  IF card.h6 # None /\ join_btn # 0
        THEN Append(classes,
                    ClassInfo(Strip(card.h6),
                              get_href_default(card.anchors[join_btn]),
                              IF mark_btn # 0 THEN card.anchors[mark_btn].href ELSE None))
        ELSE classes

RECURSIVE sunday_loop(_, _)
sunday_loop(classes, cards) ==
    IF cards = <<>> THEN classes
    ELSE sunday_loop(sunday_card(classes, Head(cards)), Tail(cards))

\* dict assignment d[k] = v
DictSet(d, k, v) == (k :> v) @@ d
EmptyDict == <<>>

\* an entry already present is kept: the first card of a role wins
weekday_card_keep_first(links, card) ==
    LET join_btn == find_anchor(card.anchors, "join meeting")
    IN  IF card.h6 # None /\ join_btn # 0
        THEN LET subject_text == Strip(card.h6)
                 link == get_href_default(card.anchors[join_btn])
                 key  == IF Contains("study circle", Lower(subject_text))
                         THEN "circle" ELSE "normal"
             IN  IF key \in DOMAIN links THEN links
                 ELSE DictSet(links, key, ClassInfo(subject_text, link, None))
        ELSE links

\* one iteration of the loop of _parse_weekday_classes
weekday_card(links, card) ==
    LET join_btn == find_anchor(card.anchors, "join meeting")
    IN  IF card.h6 # None /\ join_btn # 0
        THEN LET subject_text == Strip(card.h6)
                 link == get_href_default(card.anchors[join_btn])
             IN  IF Contains("study circle", Lower(subject_text))
                 THEN DictSet(links, "circle", ClassInfo(subject_text, link, None))
                 ELSE DictSet(links, "normal", ClassInfo(subject_text, link, None))
        ELSE links

RECURSIVE weekday_loop(_, _)
weekday_loop(links, cards) ==
    IF cards = <<>> THEN links
    ELSE weekday_loop(weekday_card(links, Head(cards)), Tail(cards))

\* the document-wide search for the mark-attendance link
weekday_mark(links, doc) ==
    LET anchors == all_anchors(doc)
        mark_btn == find_anchor(anchors, "mark")
    IN  IF mark_btn # 0
        THEN DictSet(links, "mark",
                     ClassInfo("Mark Attendance", get_href_default(anchors[mark_btn]), None))
        ELSE links

ScrapedData(is_sunday, sunday_classes, weekday_links) ==
    [is_sunday |-> is_sunday, sunday_classes |-> sunday_classes,
     weekday_links |-> weekday_links]

parse_sunday_classes(cards, d) ==
    ScrapedData(d.is_sunday, sunday_loop(d.sunday_classes, cards), d.weekday_links)

parse_weekday_classes(cards, doc, d) ==
    ScrapedData(d.is_sunday, d.sunday_classes,
                weekday_mark(weekday_loop(d.weekday_links, cards), doc))

\* the body of scrape_live_classes after the doc was fetched
parse_page(doc, is_sunday) ==
    LET fresh == ScrapedData(is_sunday, <<>>, EmptyDict)
        cards == select_cards(doc)
    IN  IF is_sunday THEN parse_sunday_classes(cards, fresh)
        ELSE parse_weekday_classes(cards, doc, fresh)

(***************************************************************************)
(* Config.from_env and Config.validate.  The environment gives each list   *)
(* as the entries between the commas of the variable; an entry is blank or *)
(* a URL (token), possibly padded with spaces.                             *)
(***************************************************************************)
UrlAt(j)   == IF j % 2 = 0 THEN " https://zoom/" \o ToString(j) \o " "
              ELSE "https://zoom/" \o ToString(j)
TokenAt(j) == IF j % 2 = 0 THEN "token" \o ToString(j) ELSE " token" \o ToString(j)
BlankAt(i) == IF i % 2 = 0 THEN "" ELSE " "

\* the results of str.split(","): at least one entry; f tells which entries
\* are blank, and the j-th entry that is not blank is the j-th URL (token)
RawShapes == UNION { [1..n -> BOOLEAN] : n \in 1..MaxWebhooks }

RawList(urls, f) ==
    [i \in DOMAIN f |->
        IF f[i]
        THEN LET j == Cardinality({h \in 1..i : f[h]})
             IN  IF urls THEN UrlAt(j) ELSE TokenAt(j)
        ELSE BlankAt(i)]

Envs ==
    { [NTFY_TOPIC_URL |-> n, ZOOM_WEBHOOK_URLS |-> RawList(TRUE, u),
       ZOOM_VERIFICATION_TOKENS |-> RawList(FALSE, t),
       WINNERS_MOBILE_NUMBER |-> m, WINNERS_PASSWORD |-> p] :
      n \in {"", "https://ntfy/topic"}, u \in RawShapes, t \in RawShapes,
      m \in {"", "0501234567"}, p \in {"", "secret"} }

\* [x.strip() for x in raw if x.strip()]
RECURSIVE strip_nonblank(_)
strip_nonblank(raw) ==
    IF raw = <<>> THEN <<>>
    ELSE (IF Strip(Head(raw)) # "" THEN <<Strip(Head(raw))>> ELSE <<>>)
         \o strip_nonblank(Tail(raw))

from_env(env) ==
    [ntfy_topic_url |-> env.NTFY_TOPIC_URL,
     zoom_webhook_urls |-> strip_nonblank(env.ZOOM_WEBHOOK_URLS),
     zoom_verification_tokens |-> strip_nonblank(env.ZOOM_VERIFICATION_TOKENS),
     winners_mobile |-> env.WINNERS_MOBILE_NUMBER,
     winners_password |-> env.WINNERS_PASSWORD]

\* the count of URLs and tokens is not compared
validate_no_count(cfg) ==
    IF cfg.winners_mobile = "" \/ cfg.winners_password = "" THEN FALSE
    ELSE TRUE

validate(cfg) ==
    IF cfg.winners_mobile = "" \/ cfg.winners_password = "" THEN FALSE
    ELSE IF Len(cfg.zoom_webhook_urls) # Len(cfg.zoom_verification_tokens) THEN FALSE
    ELSE TRUE

(***************************************************************************)
(* The run's observable events, in order: every network request and every  *)
(* call of a notification method.                                          *)
(***************************************************************************)
Event(kind, n, outcome, url, header, body) ==
    [kind |-> kind, idx |-> n, outcome |-> outcome, url |-> url,
     header |-> header, body |-> body]

\* how a request to a notification sink ends: a 2xx response, or an
\* exception of requests.post / raise_for_status
Responses == {"ok", "error"}

LOGIN_URL      == "https://www.winnerseduworld.com/parent-portal"
LIVE_CLASS_URL == "https://www.winnerseduworld.com/parent-portal/live-class"

\* Optional[ScrapedData]: None
NoData == [none |-> TRUE]

(***************************************************************************)
(* NotificationService                                                     *)
(***************************************************************************)
\* send_ntfy_alert: the call, and the POST when a topic URL is configured.
\* Whether the POST succeeds only decides the value returned (the try/except
\* turns a failure into False), and no caller reads that value.
send_ntfy_alert(cfg, message, title) ==
    LET call == Event("ntfy_call", 0, "call", "", title, message)
    IN  IF cfg.ntfy_topic_url = ""
        THEN [log |-> <<call>>, raises |-> FALSE]
        ELSE [log |-> <<call, Event("ntfy_post", 0, "sent", cfg.ntfy_topic_url, title, message)>>,
              raises |-> FALSE]

\* zip(zoom_webhook_urls, zoom_verification_tokens)
zip_pairs(cfg) ==
    LET n == IF Len(cfg.zoom_webhook_urls) <= Len(cfg.zoom_verification_tokens)
             THEN Len(cfg.zoom_webhook_urls) ELSE Len(cfg.zoom_verification_tokens)
    IN  [i \in 1..n |-> <<cfg.zoom_webhook_urls[i], cfg.zoom_verification_tokens[i]>>]

\* a failed POST ends the call with the exception
zoom_iteration_raises(cfg, message, pair, resp) ==
    LET url   == zip_pairs(cfg)[pair][1]
        token == zip_pairs(cfg)[pair][2]
        post  == Event("zoom_post", pair, resp, url \o "?format=message", token, message)
    IN  [log |-> <<post>>, inc |-> IF resp = "ok" THEN 1 ELSE 0, raises |-> resp # "ok"]

\* one iteration of the loop of send_to_zoom, for pair number `pair`
zoom_iteration(cfg, message, pair, resp) ==
    LET url   == zip_pairs(cfg)[pair][1]
        token == zip_pairs(cfg)[pair][2]
    IN  IF url = "" \/ token = ""
        THEN [log |-> <<>>, inc |-> 0, raises |-> FALSE]
        ELSE LET post == Event("zoom_post", pair, resp, url \o "?format=message", token, message)
             IN  IF resp = "ok"
                 THEN [log |-> <<post>>, inc |-> 1, raises |-> FALSE]
                 ELSE LET a == send_ntfy_alert(cfg,
                                   "Zoom webhook " \o ToString(pair) \o " failed!\nError: " \o resp,
                                   "Zoom Webhook Error")
                      IN  [log |-> <<post>> \o a.log, inc |-> 0, raises |-> a.raises]

\* return success_count > 0
zoom_result(count) == count > 0

(***************************************************************************)
(* WinnersEduScraper                                                       *)
(***************************************************************************)
LoginOutcomes == {"ok", "request_error", "http_error", "no_dashboard"}

login(cfg, outcome) ==
    LET post == Event("login_post", 0, outcome, LOGIN_URL, "",
                      cfg.winners_mobile \o ":" \o cfg.winners_password)
    IN  IF outcome = "ok"
        THEN [log |-> <<post>>, ret |-> TRUE, raises |-> FALSE]
        ELSE LET a == send_ntfy_alert(cfg, "Login to WinnersEduWorld failed!\nError: " \o outcome,
                                      "Login Error")
             IN  [log |-> <<post>> \o a.log, ret |-> FALSE, raises |-> FALSE]

ScrapeOutcomes == {"ok", "request_error", "http_error", "parse_error"}

\* the local `data` of scrape_live_classes when an exception interrupts the
\* extraction: `seen` is the part of the document whose cards were processed
partial_data(seen, is_sunday) ==
    LET fresh == ScrapedData(is_sunday, <<>>, EmptyDict)
        cards == select_cards(seen)
    IN  IF is_sunday THEN parse_sunday_classes(cards, fresh)
        ELSE ScrapedData(is_sunday, <<>>, weekday_loop(EmptyDict, cards))

\* parse_page and partial_data, tabulated over the documents of the model
ParsedPages  == [pg \in Pages, s \in BOOLEAN |-> parse_page(pg, s)] @@ <<>>
PartialPages == [pg \in Pages, s \in BOOLEAN |-> partial_data(pg, s)] @@ <<>>

\* the except branch hands the partly filled data to the caller
scrape_returns_partial(cfg, day, outcome, pg) ==
    LET get == Event("live_get", 0, outcome, LIVE_CLASS_URL, "", "")
        is_sunday == day = 6
        a == send_ntfy_alert(cfg, "Failed to scrape WinnersEduWorld!\n\n" \o outcome,
                             "Scraping Error")
    IN  IF outcome = "ok"
        THEN [log |-> <<get>>, local |-> ParsedPages[pg, is_sunday],
              ret |-> ParsedPages[pg, is_sunday], raises |-> FALSE]
        ELSE [log |-> <<get>> \o a.log, local |-> PartialPages[pg, is_sunday],
              ret |-> PartialPages[pg, is_sunday], raises |-> FALSE]

\* scrape_live_classes.  With outcome "ok", pg is the document fetched; with
\* "parse_error", pg is the part of it processed before the exception; a
\* failed request builds no data at all.
scrape_live_classes(cfg, day, outcome, pg) ==
    LET get == Event("live_get", 0, outcome, LIVE_CLASS_URL, "", "")
        is_sunday == day = 6
    IN  IF outcome = "ok"
        THEN [log |-> <<get>>, local |-> ParsedPages[pg, is_sunday],
              ret |-> ParsedPages[pg, is_sunday], raises |-> FALSE]
        ELSE LET a == send_ntfy_alert(cfg, "Failed to scrape WinnersEduWorld!\n\n" \o outcome,
                                      "Scraping Error")
             IN  [log |-> <<get>> \o a.log,
                  local |-> IF outcome = "parse_error" THEN PartialPages[pg, is_sunday]
                            ELSE NoData,
                  ret |-> NoData, raises |-> FALSE]

\* get_data goes on to the scrape whatever login returned
get_data_ignores_login(login_ok) == TRUE

\* get_data: `if not self.login(): return None`
get_data_scrapes(login_ok) == login_ok

(***************************************************************************)
(* TaskExecutor                                                            *)
(***************************************************************************)
\* execute dispatches whatever get_data returned
execute_never_aborts(d) == FALSE

\* execute: `if not data: return` (a ScrapedData instance is always truthy)
execute_aborts(d) == d = NoData

format_message(subject, link, prefix) ==
    LET parts == <<"*" \o subject \o "*", link>>
                 \o (IF prefix # "" THEN <<"\n[" \o prefix \o "]">> ELSE <<>>)
                 \o <<"\n_(automated)_">>
        join[i \in 1..Len(parts)] ==
            IF i = 1 THEN parts[1] ELSE join[i - 1] \o "\n" \o parts[i]
    IN  join[Len(parts)]

\* the report says "operational" whatever the probe found
run_daily_report_always_ok(cfg, d, t) ==
    send_ntfy_alert(cfg,
        "Daily Status Report\n\nAll systems operational!\nTime: "
            \o ToString(t[2]) \o ":" \o ToString(t[3]),
        "Daily Health Check")

run_daily_report(cfg, d, t) ==
    LET status == IF d # NoData THEN "All systems operational!" ELSE "Site access failed"
    IN  send_ntfy_alert(cfg,
            "Daily Status Report\n\n" \o status \o "\nTime: "
                \o ToString(t[2]) \o ":" \o ToString(t[3]),
            "Daily Health Check")

\* A handler's work: the "data missing" alerts it sends and the messages it
\* passes, one by one, to send_to_zoom.
Handled(alerts, messages) == [alerts |-> alerts, messages |-> messages]

RECURSIVE sunday_messages(_)
sunday_messages(classes) ==
    IF classes = <<>> THEN <<>>
    ELSE <<format_message(Head(classes).subject, Head(classes).join_link, "Sunday Class")>>
         \o sunday_messages(Tail(classes))

send_sunday_classes(d) ==
    IF d.sunday_classes = <<>> THEN Handled(<<"No Sunday classes found!">>, <<>>)
    ELSE Handled(<<>>, sunday_messages(d.sunday_classes))

\* the truth value of an Optional[str]
truthy(s) == s # None /\ s # ""

RECURSIVE mark_messages(_)
mark_messages(classes) ==
    IF classes = <<>> THEN <<>>
    ELSE (IF truthy(Head(classes).mark_link)
          THEN <<format_message("Mark Attendance - " \o Head(classes).subject,
                                Head(classes).mark_link, "Sunday Marks")>>
          ELSE <<>>)
         \o mark_messages(Tail(classes))

send_sunday_marks(d) ==
    IF mark_messages(d.sunday_classes) = <<>>
    THEN Handled(<<"No Sunday mark links found!">>, <<>>)
    ELSE Handled(<<>>, mark_messages(d.sunday_classes))

\* a missing key ends the handler without an alert
send_weekday_link_silent(d, link_key, prefix) ==
    IF link_key \notin DOMAIN d.weekday_links
    THEN Handled(<<>>, <<>>)
    ELSE Handled(<<>>, <<format_message(d.weekday_links[link_key].subject,
                                        d.weekday_links[link_key].join_link, prefix)>>)

send_weekday_link(d, link_key, prefix) ==
    IF link_key \notin DOMAIN d.weekday_links
    THEN Handled(<<"Could not find '" \o prefix \o "' link for weekday!">>, <<>>)
    ELSE Handled(<<>>, <<format_message(d.weekday_links[link_key].subject,
                                        d.weekday_links[link_key].join_link, prefix)>>)

dispatch_task(task_type, d) ==
    CASE task_type = SUNDAY_CLASSES -> send_sunday_classes(d)
      [] task_type = SUNDAY_MARKS   -> send_sunday_marks(d)
      [] task_type = WEEKDAY_CIRCLE -> send_weekday_link(d, "circle", "STUDY CIRCLE")
      [] task_type = WEEKDAY_NORMAL -> send_weekday_link(d, "normal", "NORMAL CLASS")
      [] task_type = WEEKDAY_MARK   -> send_weekday_link(d, "mark", "MARK ATTENDANCE")
      [] OTHER                      -> Handled(<<>>, <<>>)

(***************************************************************************)
(* State.                                                                  *)
(***************************************************************************)
VARIABLES
    pc,             \* position of the run
    config,         \* Config.from_env()
    now,            \* the clock value read: <<weekday, hour, minute>>
    task,           \* the scheduler's answer
    page,           \* the document handed to the parser
    scraped,        \* the local `data` of scrape_live_classes
    data,           \* the value get_data returned to the executor
    log,            \* the events of the run so far
    msgs,           \* the messages the running handler sends
    mi,             \* index in msgs of the message being sent
    idx,            \* send_to_zoom: number of the pair being posted to
    success_count,  \* send_to_zoom: success_count
    raised,         \* an exception escaped main
    exit_code       \* <<>> while running, <<code>> once main returned

vars == <<pc, config, now, task, page, scraped, data, log, msgs, mi, idx,
          success_count, raised, exit_code>>

(***************************************************************************)
(* One run of main().                                                      *)
(***************************************************************************)
\* clock values the run is started at: a weekday and Sunday, inside and
\* outside every window of the schedule
Clock == {2, 6} \X {8, 16, 17, 18, 19} \X {0, 20, 55}

\* the state of a process that has read nothing yet
Fresh ==
    /\ task = None
    /\ scraped = NoData
    /\ data = NoData
    /\ log = <<>>
    /\ msgs = <<>>
    /\ mi = 1
    /\ idx = 1
    /\ success_count = 0
    /\ raised = FALSE
    /\ exit_code = <<>>

Init ==
    /\ \E env \in Envs : config = from_env(env)
    /\ pc = "main"
    /\ now = <<>>
    /\ page = <<>>
    /\ Fresh

\* main returns code
Return(code) == pc' = "exit" /\ exit_code' = <<code>> /\ raised' = FALSE

\* an exception escapes main: the interpreter prints it and exits with 1
Crash == pc' = "exit" /\ exit_code' = <<1>> /\ raised' = TRUE

Goto(label) == pc' = label /\ UNCHANGED <<exit_code, raised>>

\* main, up to the validation of the configuration
Main ==
    /\ pc = "main"
    /\ IF ~validate(config) THEN Return(1) ELSE Goto("schedule")
    /\ UNCHANGED <<config, now, task, page, scraped, data, log, msgs, mi, idx, success_count>>

\* main: scheduler.get_scheduled_task(), then executor.execute(task) up to
\* the call of get_data
Schedule ==
    /\ pc = "schedule"
    /\ \E t \in Clock :
        /\ now' = t
        /\ task' = get_scheduled_task(t[1], t[2], t[3])
    /\ IF task' = None THEN Return(0) ELSE Goto("login")
    /\ UNCHANGED <<config, page, scraped, data, log, msgs, mi, idx, success_count>>

\* get_data has returned d to execute / _run_daily_report
Returned(d) ==
    /\ data' = d
    /\ IF task = DAILY_REPORT THEN Goto("report")
       ELSE IF execute_aborts(d) THEN Return(0)
       ELSE Goto("dispatch")

\* WinnersEduScraper.login, called by get_data
Login ==
    /\ pc = "login"
    /\ \E outcome \in LoginOutcomes :
        LET r == login(config, outcome)
        IN  /\ log' = log \o r.log
            /\ IF r.raises THEN Crash /\ UNCHANGED data
               ELSE IF get_data_scrapes(r.ret) THEN Goto("scrape") /\ UNCHANGED data
               ELSE Returned(NoData)
    /\ UNCHANGED <<config, now, task, page, scraped, msgs, mi, idx, success_count>>

\* WinnersEduScraper.scrape_live_classes, called by get_data
Scrape ==
    /\ pc = "scrape"
    /\ \E outcome \in ScrapeOutcomes, pg \in Pages :
        /\ outcome \in {"request_error", "http_error"} => pg = <<>>
        /\ LET r == scrape_live_classes(config, now[1], outcome, pg)
           IN  /\ log' = log \o r.log
               /\ scraped' = r.local
               /\ IF r.raises THEN Crash /\ UNCHANGED data ELSE Returned(r.ret)
    /\ UNCHANGED <<config, now, task, page, msgs, mi, idx, success_count>>

\* TaskExecutor._run_daily_report, after get_data
Report ==
    /\ pc = "report"
    /\ LET r == run_daily_report(config, data, now)
       IN  /\ log' = log \o r.log
           /\ IF r.raises THEN Crash ELSE Return(0)
    /\ UNCHANGED <<config, now, task, page, scraped, data, msgs, mi, idx, success_count>>

RECURSIVE alert_events(_, _)
alert_events(cfg, alerts) ==
    IF alerts = <<>> THEN <<>>
    ELSE send_ntfy_alert(cfg, Head(alerts), "Data Missing").log
         \o alert_events(cfg, Tail(alerts))

\* TaskExecutor._dispatch_task and the handler it picks, up to the first
\* call of send_to_zoom.  A handler reads the fields of its data: on None
\* that is an AttributeError nothing catches.
Dispatch ==
    /\ pc = "dispatch"
    /\ IF data = NoData
       THEN Crash /\ UNCHANGED <<log, msgs>>
       ELSE LET h == dispatch_task(task, data)
            IN  /\ log' = log \o alert_events(config, h.alerts)
                /\ msgs' = h.messages
                /\ IF h.messages = <<>> THEN Return(0) ELSE Goto("send")
    /\ mi' = 1 /\ idx' = 1 /\ success_count' = 0
    /\ UNCHANGED <<config, now, task, page, scraped, data>>

\* send_to_zoom has returned: the handler's loop goes on or main returns 0
NextMessage ==
    /\ idx' = 1 /\ success_count' = 0
    /\ IF mi < Len(msgs) THEN mi' = mi + 1 /\ Goto("send")
       ELSE mi' = mi /\ Return(0)

\* send_to_zoom when no request is made: no webhook is configured, or the
\* zip of URLs and tokens is empty
ZoomNoPost ==
    /\ pc = "send"
    /\ IF config.zoom_webhook_urls = <<>> THEN TRUE ELSE Len(zip_pairs(config)) = 0
    /\ log' = log \o <<Event("zoom_call", mi, "call", "", "", msgs[mi]),
                       Event("zoom_return", mi, "False", "", "", msgs[mi])>>
    /\ NextMessage
    /\ UNCHANGED <<config, now, task, page, scraped, data, msgs>>

\* send_to_zoom: one iteration of its loop (with the call before the first
\* and the return after the last)
ZoomPost ==
    /\ pc = "send"
    /\ config.zoom_webhook_urls # <<>>
    /\ idx <= Len(zip_pairs(config))
    /\ \E resp \in Responses :
        LET r    == zoom_iteration(config, msgs[mi], idx, resp)
            sc   == success_count + r.inc
            call == IF idx = 1 THEN <<Event("zoom_call", mi, "call", "", "", msgs[mi])>>
                    ELSE <<>>
            ret  == Event("zoom_return", mi, IF zoom_result(sc) THEN "True" ELSE "False",
                          "", "", msgs[mi])
        IN  IF r.raises
            THEN /\ log' = log \o call \o r.log
                 /\ Crash
                 /\ UNCHANGED <<mi, idx, success_count>>
            ELSE IF idx < Len(zip_pairs(config))
            THEN /\ log' = log \o call \o r.log
                 /\ idx' = idx + 1
                 /\ success_count' = sc
                 /\ mi' = mi
                 /\ Goto("send")
            ELSE /\ log' = log \o call \o r.log \o <<ret>>
                 /\ NextMessage
    /\ UNCHANGED <<config, now, task, page, scraped, data, msgs>>

Next ==
    \/ Main
    \/ Schedule
    \/ Login
    \/ Scrape
    \/ Report
    \/ Dispatch
    \/ ZoomNoPost
    \/ ZoomPost

Spec == Init /\ [][Next]_vars

(***************************************************************************)
(* The scheduler alone, on every clock value.                              *)
(***************************************************************************)
NoConfig == [none |-> TRUE]

InitSched ==
    /\ pc = "clock"
    /\ config = NoConfig
    /\ now \in Days \X Hours \X Minutes
    /\ page = <<>>
    /\ Fresh

GetScheduledTask ==
    /\ pc = "clock"
    /\ task' = get_scheduled_task(now[1], now[2], now[3])
    /\ pc' = "scheduled"
    /\ UNCHANGED <<config, now, page, scraped, data, log, msgs, mi, idx,
                   success_count, raised, exit_code>>

NextSched == GetScheduledTask

SpecSched == InitSched /\ [][NextSched]_vars

(***************************************************************************)
(* The parser alone, on every document of the model, on a weekday and on   *)
(* Sunday.                                                                 *)
(***************************************************************************)
InitParse ==
    /\ pc = "fetched"
    /\ config = NoConfig
    /\ now \in {<<2, 17, 0>>, <<6, 17, 0>>}
    /\ page \in Pages
    /\ Fresh

ParsePage ==
    /\ pc = "fetched"
    /\ scraped' = parse_page(page, now[1] = 6)
    /\ pc' = "parsed"
    /\ UNCHANGED <<config, now, task, page, data, log, msgs, mi, idx,
                   success_count, raised, exit_code>>

NextParse == ParsePage

SpecParse == InitParse /\ [][NextParse]_vars

(***************************************************************************)
(* Properties.                                                             *)
(***************************************************************************)
\* positions of the events of one kind
LogIdx(kind) == {i \in 1..Len(log) : log[i].kind = kind}

\* positions of the calls of send_ntfy_alert with one title
AlertCalls(title) == {i \in LogIdx("ntfy_call") : log[i].header = title}

\* the events that are network requests
RequestKinds == {"login_post", "live_get", "ntfy_post", "zoom_post"}

\* The decision table of the schedule: the days, the hour and the minutes of
\* each window, and its task.
ScheduleTable ==
    { [days |-> 0..6, hour |-> 8,  minutes |-> 0..14,  task |-> DAILY_REPORT],
      [days |-> {6},  hour |-> 17, minutes |-> 0..14,  task |-> SUNDAY_CLASSES],
      [days |-> {6},  hour |-> 18, minutes |-> 55..59, task |-> SUNDAY_MARKS],
      [days |-> 0..5, hour |-> 16, minutes |-> 0..14,  task |-> WEEKDAY_CIRCLE],
      [days |-> 0..5, hour |-> 17, minutes |-> 0..14,  task |-> WEEKDAY_NORMAL],
      [days |-> 0..5, hour |-> 18, minutes |-> 55..59, task |-> WEEKDAY_NORMAL],
      [days |-> 0..5, hour |-> 19, minutes |-> 15..29, task |-> WEEKDAY_MARK] }

\* C1: for every (weekday, hour, minute) the scheduler returns the task of
\* the table's window that holds it, and no task when no window holds it;
\* the daily report window holds on every day.
C1_ScheduleMatchesTable ==
    pc = "scheduled" =>
        LET M == {r \in ScheduleTable :
                    now[1] \in r.days /\ now[2] = r.hour /\ now[3] \in r.minutes}
        IN  /\ task \in TaskType \cup {None}
            /\ IF M = {} THEN task = None ELSE \A r \in M : task = r.task

\* Sunday 08:14 is the daily report: the window is checked before the day.
C1_Witness ==
    pc = "scheduled" /\ now = <<6, 8, 14>> /\ task = DAILY_REPORT

\* the configurations validation must refuse
InvalidConfig ==
    \/ config.winners_mobile = ""
    \/ config.winners_password = ""
    \/ Len(config.zoom_webhook_urls) # Len(config.zoom_verification_tokens)

\* C2: with an empty mobile number or password, or with different numbers of
\* URLs and tokens, the run makes no network request and main returns 1.
C2_InvalidConfigNoRequest ==
    InvalidConfig =>
        /\ pc \in {"main", "exit"}
        /\ \A i \in 1..Len(log) : log[i].kind \notin RequestKinds
        /\ pc = "exit" => exit_code = <<1>>

\* main has returned 1 on credentials that are set and counts that differ
C2_Witness ==
    /\ pc = "exit" /\ exit_code = <<1>> /\ log = <<>>
    /\ config.winners_mobile # "" /\ config.winners_password # ""
    /\ Len(config.zoom_webhook_urls) = 2
    /\ Len(config.zoom_verification_tokens) = 1

\* C3: within every call of send_to_zoom the POSTs go to the configured
\* pairs in order, one each, whatever the earlier ones gave; every failed
\* POST is followed by exactly one call of the alert sink; a call that has
\* returned has posted to every pair and returned True exactly when one POST
\* succeeded (so False, without a POST, when no webhook is configured); no
\* exception escapes.
C3_SendToZoom ==
    /\ raised = FALSE
    /\ \A p \in LogIdx("zoom_call") :
        LET R == {q \in LogIdx("zoom_return") : q > p}
            e == IF R # {} THEN CHOOSE q \in R : \A r \in R : q <= r ELSE Len(log) + 1
            P == {i \in LogIdx("zoom_post") : p < i /\ i < e}
            F == {i \in P : log[i].outcome # "ok"}
            A == {i \in LogIdx("ntfy_call") : p < i /\ i < e}
            n == Len(config.zoom_webhook_urls)
        IN  /\ \A i \in P :
                LET j == Cardinality({q \in P : q <= i})
                IN  /\ j <= n
                    /\ log[i].idx = j
                    /\ log[i].url = config.zoom_webhook_urls[j] \o "?format=message"
                    /\ log[i].header = config.zoom_verification_tokens[j]
                    /\ log[i].body = log[p].body
            /\ \A i \in F :
                /\ i + 1 <= Len(log)
                /\ log[i + 1].kind = "ntfy_call"
                /\ log[i + 1].header = "Zoom Webhook Error"
            /\ Cardinality(A) = Cardinality(F)
            /\ R # {} =>
                /\ Cardinality(P) = n
                /\ log[e].outcome = "True" <=> \E i \in P : log[i].outcome = "ok"

\* a call has returned True after its first POST failed and its second
\* succeeded
C3_Witness ==
    \E p \in LogIdx("zoom_call") :
        /\ p + 4 <= Len(log)
        /\ log[p + 1].kind = "zoom_post" /\ log[p + 1].outcome = "error"
        /\ log[p + 2].kind = "ntfy_call"
        /\ log[p + 3].kind = "zoom_post" /\ log[p + 3].outcome = "ok"
        /\ log[p + 4].kind = "zoom_return" /\ log[p + 4].outcome = "True"

\* C4: a failed live-class fetch (request error, HTTP error status, exception
\* while parsing or extracting) is followed by exactly one call of the alert
\* sink, which carries the error, and get_data returns None: the data filled
\* before the failure is not returned.
C4_ScrapeFailure ==
    \A g \in LogIdx("live_get") :
        log[g].outcome # "ok" =>
            /\ g + 1 <= Len(log)
            /\ log[g + 1].kind = "ntfy_call"
            /\ log[g + 1].header = "Scraping Error"
            /\ Contains(log[g].outcome, log[g + 1].body)
            /\ Cardinality(AlertCalls("Scraping Error")) = 1
            /\ data = NoData

\* the extraction failed on Sunday after a class had been appended
C4_Witness ==
    /\ pc = "exit"
    /\ \E g \in LogIdx("live_get") : log[g].outcome = "parse_error"
    /\ scraped # NoData
    /\ scraped.sunday_classes # <<>>
    /\ data = NoData

\* C5: at most one login POST and one live-class GET per run, the GET only
\* after a login POST that succeeded; a failed login is followed by exactly
\* one call of the alert sink, no GET is made and get_data returns None.
C5_LoginBeforeScrape ==
    /\ Cardinality(LogIdx("login_post")) <= 1
    /\ Cardinality(LogIdx("live_get")) <= 1
    /\ \A g \in LogIdx("live_get") :
        \E l \in LogIdx("login_post") : l < g /\ log[l].outcome = "ok"
    /\ \A l \in LogIdx("login_post") :
        log[l].outcome # "ok" =>
            /\ l + 1 <= Len(log)
            /\ log[l + 1].kind = "ntfy_call"
            /\ log[l + 1].header = "Login Error"
            /\ Cardinality(AlertCalls("Login Error")) = 1
            /\ LogIdx("live_get") = {}
            /\ data = NoData

\* a weekday run has ended after a login that did not reach the dashboard
C5_Witness ==
    /\ pc = "exit"
    /\ task = WEEKDAY_NORMAL
    /\ \E l \in LogIdx("login_post") : log[l].outcome = "no_dashboard"

\* the entry the parser builds from a card
Qualifies(card) ==
    /\ card.h6 # None
    /\ \E i \in 1..Len(card.anchors) : text_matches(card.anchors[i].text, "join meeting")

IsCircle(card) == Contains("study circle", Lower(card.h6))

EntryOf(card) ==
    ClassInfo(Strip(card.h6),
              get_href_default(card.anchors[find_anchor(card.anchors, "join meeting")]),
              None)

LastOf(S) == CHOOSE i \in S : \A j \in S : j <= i

\* C6 (amended): on a weekday weekday_links holds, under "circle", the last
\* card with a heading and a join anchor whose heading contains "study
\* circle" in any case, under "normal" the last such card whose heading does
\* not, and no entry for a role no card has; cards without heading or join
\* anchor never change the "circle" and "normal" entries.
C6_WeekdayLastWins ==
    (pc = "parsed" /\ now[1] # 6) =>
        LET cards == select_cards(page)
            Q     == {i \in 1..Len(cards) : Qualifies(cards[i])}
            Circ  == {i \in Q : IsCircle(cards[i])}
            Norm  == Q \ Circ
            links == scraped.weekday_links
        IN  /\ DOMAIN links \subseteq {"circle", "normal", "mark"}
            /\ "circle" \in DOMAIN links <=> Circ # {}
            /\ "normal" \in DOMAIN links <=> Norm # {}
            /\ Circ # {} => links["circle"] = EntryOf(cards[LastOf(Circ)])
            /\ Norm # {} => links["normal"] = EntryOf(cards[LastOf(Norm)])
            /\ scraped.sunday_classes = <<>>

\* two cards of the role "normal" with different entries: the second is kept
C6_Witness ==
    /\ pc = "parsed" /\ now[1] # 6
    /\ Len(page) = 2
    /\ page[1].tag = "div" /\ page[2].tag = "div"
    /\ Qualifies(page[1]) /\ Qualifies(page[2])
    /\ ~IsCircle(page[1]) /\ ~IsCircle(page[2])
    /\ EntryOf(page[1]) # EntryOf(page[2])
    /\ scraped.weekday_links["normal"] = EntryOf(page[2])

\* the document without the cards that lack a heading or a join anchor
qualifying_only(doc) ==
    SelectSeq(doc, LAMBDA node : node.tag # "div" \/ Qualifies(node))

\* C6 as stated: the rule of the last card, and cards lacking a heading or a
\* join anchor never change weekday_links: the document parsed with them and
\* without them gives the same weekday_links.
C6_SkippedCardsChangeNothing ==
    /\ C6_WeekdayLastWins
    /\ (pc = "parsed" /\ now[1] # 6) =>
            scraped.weekday_links = parse_page(qualifying_only(page), FALSE).weekday_links

\* C7: a daily-report run never calls the messaging sink; when it ends it
\* has made one scrape attempt (one login POST, at most one GET) and then
\* one "Daily Health Check" call of the alert sink, the last alert of the
\* run, whose text says operational exactly when the scrape returned data.
C7_DailyReport ==
    task = DAILY_REPORT =>
        /\ LogIdx("zoom_call") = {}
        /\ LogIdx("zoom_post") = {}
        /\ pc = "exit" =>
            /\ Cardinality(LogIdx("login_post")) = 1
            /\ Cardinality(LogIdx("live_get")) <= 1
            /\ Cardinality(AlertCalls("Daily Health Check")) = 1
            /\ \A r \in AlertCalls("Daily Health Check") :
                /\ \A i \in LogIdx("login_post") \cup LogIdx("live_get")
                            \cup LogIdx("ntfy_call") : i <= r
                /\ Contains("operational", log[r].body)
                     <=> \E g \in LogIdx("live_get") : log[g].outcome = "ok"

\* the probe's GET failed and the report says so
C7_Witness ==
    /\ task = DAILY_REPORT /\ pc = "exit"
    /\ \E g \in LogIdx("live_get") : log[g].outcome = "http_error"
    /\ \E r \in AlertCalls("Daily Health Check") :
        Contains("Site access failed", log[r].body)

\* a Sunday class carries a mark link
HasMarkLink(c) == c.mark_link # None /\ c.mark_link # ""

RoleKey(t) ==
    CASE t = WEEKDAY_CIRCLE -> "circle"
      [] t = WEEKDAY_NORMAL -> "normal"
      [] t = WEEKDAY_MARK   -> "mark"

\* C8: a Sunday-marks or weekday task that got data ends with either one
\* "Data Missing" alert and no call of the messaging sink (no Sunday class
\* carries a mark link; the role key is missing), or no such alert and one
\* call of the messaging sink per Sunday class that carries a mark link,
\* exactly one for a weekday task.
C8_LinkOrDataMissing ==
    (/\ pc = "exit"
     /\ task \in {SUNDAY_MARKS, WEEKDAY_CIRCLE, WEEKDAY_NORMAL, WEEKDAY_MARK}
     /\ data # NoData) =>
        LET expected ==
                IF task = SUNDAY_MARKS
                THEN Cardinality({i \in 1..Len(data.sunday_classes) :
                                    HasMarkLink(data.sunday_classes[i])})
                ELSE IF RoleKey(task) \in DOMAIN data.weekday_links THEN 1 ELSE 0
            missing == Cardinality(AlertCalls("Data Missing"))
            calls   == Cardinality(LogIdx("zoom_call"))
        IN  IF expected = 0 THEN missing = 1 /\ calls = 0
            ELSE missing = 0 /\ calls = expected

\* two Sunday classes, one of them with a mark link: one message
C8_Witness ==
    /\ pc = "exit" /\ task = SUNDAY_MARKS /\ data # NoData
    /\ Len(data.sunday_classes) = 2
    /\ Cardinality(LogIdx("zoom_call")) = 1
    /\ AlertCalls("Data Missing") = {}

\* C9: a task other than the daily report whose scrape gave no data ends
\* without a call of the messaging sink, with the scraper's alert as the only
\* alert of the run, and main returns 0.
C9_SilentAbort ==
    (pc = "exit" /\ task \notin {None, DAILY_REPORT} /\ data = NoData) =>
        /\ LogIdx("zoom_call") = {}
        /\ LogIdx("zoom_post") = {}
        /\ Cardinality(LogIdx("ntfy_call")) = 1
        /\ \A i \in LogIdx("ntfy_call") : log[i].header \in {"Login Error", "Scraping Error"}
        /\ exit_code = <<0>>

\* a Sunday-classes run has ended after its GET failed
C9_Witness ==
    /\ pc = "exit" /\ task = SUNDAY_CLASSES /\ data = NoData
    /\ \E g \in LogIdx("live_get") : log[g].outcome = "request_error"
    /\ exit_code = <<0>>

\* C10: between any two POSTs to the messaging sink of one run a pause is
\* taken.  (No step of the program is a pause: the source never sleeps.)
C10_PauseBetweenPosts ==
    \A i, j \in LogIdx("zoom_post") :
        i < j => \E k \in (i + 1)..(j - 1) : log[k].kind = "sleep"

====
